---- MODULE Spec2Model ----
(***************************************************************************)
(* Model of src/packcreator.py: create_pack, create_carpack and            *)
(* _write_template_files, run against a small file system.                 *)
(*                                                                         *)
(* A file or directory name is a sequence of one-character strings, a path *)
(* is a sequence of names (absolute, from the file-system root), and an    *)
(* archive entry name is the character sequence as_posix() produces.       *)
(***************************************************************************)
EXTENDS Naturals, Integers, Sequences, FiniteSets, TLC

VARIABLES
    fs,                       \* the file system: existing path -> "dir" | "file"
    fs0,                      \* the file system before the call (history)
    pc,                       \* position of the running call
    fn,                       \* the function called: "none", "create_pack", "create_carpack"
    args,                     \* the arguments of the call
    source_path,              \* create_pack: resolved source folder
    resolved_vehicle_folders, \* create_carpack: validated vehicle paths
    output_path,              \* resolved output folder
    zip_path,                 \* path of the archive file
    tpl,                      \* create_carpack: the three template paths in use
    archive,                  \* entries written to the archive, in write order
    walk,                     \* the running os.walk: the directories still to visit
    current_root,             \* directory the walk is yielding
    files,                    \* file names of current_root still to process
    vidx,                     \* create_carpack: index of the vehicle being walked
    raised,                   \* the exception that ended the call, or NoError
    result,                   \* the returned path (one-element sequence) or <<>>
    other                     \* a second invocation running at the same time: how far
                              \* its writes to the file system have got, and where they go

vars == <<fs, fs0, pc, fn, args, source_path, resolved_vehicle_folders, output_path,
          zip_path, tpl, archive, walk, current_root, files, vidx, raised, result, other>>

----------------------------------------------------------------------------
(* Bounds of the model *)

MaxVehicles == 2

----------------------------------------------------------------------------
(* Names *)

N_audioconfig == <<"a","u","d","i","o","c","o","n","f","i","g">>
N_data == <<"d","a","t","a">>
N_stream == <<"s","t","r","e","a","m">>
N_sfx == <<"s","f","x">>
N_fxmanifest == <<"f","x","m","a","n","i","f","e","s","t",".","l","u","a">>
N_dot == <<".">>
N_dotdot == <<".",".">>

REQUIRED_PACK_FOLDERS == <<N_audioconfig, N_data, N_stream, N_sfx>>
META_EXTENSIONS == { <<".","m","e","t","a">> }
STREAM_EXTENSIONS == { <<".","y","f","t">>, <<".","y","t","d">>,
                       <<".","y","c","d">>, <<".","y","d","r">> }

UpperChars == <<"A","B","C","D","E","F","G","H","I","J","K","L","M",
                "N","O","P","Q","R","S","T","U","V","W","X","Y","Z">>
LowerChars == <<"a","b","c","d","e","f","g","h","i","j","k","l","m",
                "n","o","p","q","r","s","t","u","v","w","x","y","z">>

\* str.lower()
Lower(s) ==
    [i \in DOMAIN s |->
        IF \E k \in DOMAIN UpperChars : UpperChars[k] = s[i]
        THEN LowerChars[CHOOSE k \in DOMAIN UpperChars : UpperChars[k] = s[i]]
        ELSE s[i]]

\* PurePath.suffix of a name: from the last dot on, unless that dot is the
\* first or the last character
Suffix(name) ==
    LET dots == { i \in DOMAIN name : name[i] = "." }
        last == IF dots = {} THEN 0 ELSE CHOOSE i \in dots : \A j \in dots : j <= i
    IN  IF 1 < last /\ last < Len(name)
        THEN SubSeq(name, last, Len(name))
        ELSE <<>>

\* PurePath.name: the last component, empty for the empty path
Name(path) == IF path = <<>> THEN <<>> ELSE path[Len(path)]

\* PurePath.as_posix() of a relative path: components joined by "/"
RECURSIVE AsPosix(_)
AsPosix(parts) ==
    IF parts = <<>> THEN N_dot
    ELSE IF Len(parts) = 1 THEN parts[1]
    ELSE parts[1] \o <<"/">> \o AsPosix(Tail(parts))

\* Path.resolve() of an absolute path (no symbolic links): "." and ".."
\* components are folded away
RECURSIVE ResolveFrom(_, _)
ResolveFrom(done, rest) ==
    IF rest = <<>> THEN done
    ELSE IF Head(rest) = N_dot THEN ResolveFrom(done, Tail(rest))
    ELSE IF Head(rest) = N_dotdot
         THEN ResolveFrom(IF done = <<>> THEN <<>> ELSE SubSeq(done, 1, Len(done) - 1),
                          Tail(rest))
    ELSE ResolveFrom(Append(done, Head(rest)), Tail(rest))

Resolve(path) == ResolveFrom(<<>>, path)

IsPrefix(p, q) == Len(p) <= Len(q) /\ SubSeq(q, 1, Len(p)) = p

\* PurePath.relative_to(base)
RelativeTo(path, base) == SubSeq(path, Len(base) + 1, Len(path))

----------------------------------------------------------------------------
(* File system *)

Exists(f, p) == p = <<>> \/ p \in DOMAIN f
IsDir(f, p) == p = <<>> \/ (p \in DOMAIN f /\ f[p] = "dir")
IsFile(f, p) == p \in DOMAIN f /\ f[p] = "file"

\* the entries of directory d
Children(f, d) == { p \in DOMAIN f : Len(p) = Len(d) + 1 /\ IsPrefix(d, p) }

\* a set of names as a list, in one fixed order (the order scandir yields)
RECURSIVE Listing(_)
Listing(S) ==
    IF S = {} THEN <<>>
    ELSE LET x == CHOOSE x \in S : TRUE IN <<x>> \o Listing(S \ {x})

\* os.scandir split as os.walk does: (directory names, file names)
ScanDirs(f, d) == Listing({ Name(p) : p \in { c \in Children(f, d) : f[c] = "dir" } })
ScanFiles(f, d) == Listing({ Name(p) : p \in { c \in Children(f, d) : f[c] = "file" } })

\* Path.mkdir(parents=True, exist_ok=True)
Mkdir(f, p) ==
    LET new == { SubSeq(p, 1, k) : k \in 1..Len(p) } \ DOMAIN f
    IN  [q \in DOMAIN f \cup new |-> IF q \in new THEN "dir" ELSE f[q]]

\* open(path, "w"): the file exists afterwards
CreateFile(f, p) == [q \in DOMAIN f \cup {p} |-> IF q = p THEN "file" ELSE f[q]]

----------------------------------------------------------------------------
(* The file systems and arguments the calls are tried on *)

N_a == <<"a">>
N_o == <<"o">>
N_out == <<"o","u","t">>
N_sub == <<"s","u","b">>
N_nope == <<"n","o","p","e">>
N_xyz == <<"x","y","z">>
N_parts == <<"p","a","r","t","s">>
N_ac == <<"a","c">>
N_sx == <<"s","x">>
N_e == <<"e">>
N_v_meta == <<"v",".","m","e","t","a">>
N_M_YFT == <<"M",".","Y","F","T">>
N_r_txt == <<"r",".","t","x","t">>
N_e_yft == <<"e",".","y","f","t">>
N_n_txt == <<"n",".","t","x","t">>
N_t_ytd == <<"t",".","y","t","d">>
N_h_meta == <<"h",".","m","e","t","a">>
N_c_ycd == <<"c",".","y","c","d">>
N_old_ydr == <<"o","l","d",".","y","d","r">>
N_p_rel == <<"p",".","r","e","l">>
N_q_rel == <<"q",".","r","e","l">>
N_s_awc == <<"s",".","a","w","c">>
N_fx_lua == <<"f","x",".","l","u","a">>
N_p == <<"p">>

\* the first vehicle, /a: files at its root, a data/ and a stream/ subtree
VehicleA ==
    { <<N_a>> :> "dir",
      <<N_a, N_v_meta>> :> "file",
      <<N_a, N_M_YFT>> :> "file",
      <<N_a, N_r_txt>> :> "file",
      <<N_a, N_fxmanifest>> :> "file",
      <<N_a, N_data>> :> "dir",
      <<N_a, N_data, N_v_meta>> :> "file",
      <<N_a, N_data, N_e_yft>> :> "file",
      <<N_a, N_data, N_n_txt>> :> "file",
      <<N_a, N_stream>> :> "dir",
      <<N_a, N_stream, N_t_ytd>> :> "file",
      <<N_a, N_stream, N_h_meta>> :> "file",
      <<N_a, N_stream, N_sub>> :> "dir",
      <<N_a, N_stream, N_sub, N_c_ycd>> :> "file" }

\* a second vehicle with the same directory name, /o/a; it holds a regular
\* file that is named data
VehicleB ==
    { <<N_o>> :> "dir",
      <<N_o, N_a>> :> "dir",
      <<N_o, N_a, N_v_meta>> :> "file",
      <<N_o, N_a, N_data>> :> "file" }

\* template parts that are supplied one by one
Parts ==
    { <<N_parts>> :> "dir",
      <<N_parts, N_ac>> :> "dir",
      <<N_parts, N_ac, N_q_rel>> :> "file",
      <<N_parts, N_sx>> :> "dir",
      <<N_parts, N_fx_lua>> :> "file" }

\* the template root /xyz: each of its three parts is missing, right, or of
\* the wrong kind
TemplateRoot(xa, xs, xm) ==
    { <<N_xyz>> :> "dir" }
    \cup (IF xa = "dir"
          THEN { <<N_xyz, N_audioconfig>> :> "dir",
                 <<N_xyz, N_audioconfig, N_p_rel>> :> "file",
                 <<N_xyz, N_audioconfig, N_e>> :> "dir" }
          ELSE IF xa = "file" THEN { <<N_xyz, N_audioconfig>> :> "file" }
          ELSE {})
    \cup (IF xs = "dir"
          THEN { <<N_xyz, N_sfx>> :> "dir",
                 <<N_xyz, N_sfx, N_s_awc>> :> "file" }
          ELSE {})
    \cup (IF xm = "none" THEN {} ELSE { <<N_xyz, N_fxmanifest>> :> xm })

\* an output folder that exists already inside the first vehicle
OldOutput(ao) ==
    IF ao THEN { <<N_a, N_out>> :> "dir", <<N_a, N_out, N_old_ydr>> :> "file" }
    ELSE {}

\* the file system holding the nodes of S (a set of one-point functions)
MkFs(S) ==
    LET paths == UNION { DOMAIN n : n \in S }
    IN  [p \in paths |-> (CHOOSE n \in S : p \in DOMAIN n)[p]]

Worlds ==
    { MkFs(VehicleA \cup VehicleB \cup Parts \cup TemplateRoot(xa, xs, xm) \cup OldOutput(ao)) :
        xa \in {"none", "dir", "file"}, xs \in {"none", "dir"},
        xm \in {"none", "file", "dir"}, ao \in BOOLEAN }

\* optional arguments: <<>> is None, <<x>> is the value x; the empty string
\* is the path of one empty component
None == <<>>
Some(x) == <<x>>
EmptyString == << <<>> >>

\* truth value of an optional path argument (None and "" are false)
Truthy(opt) == opt # None /\ ~(Len(opt[1]) = 1 /\ Len(opt[1][1]) = 0)

\* truth value of an optional name argument (None and "" are false)
TruthyName(opt) == opt # None /\ Len(opt[1]) > 0

PackSources == { <<N_a>>, <<N_a, N_r_txt>>, <<N_nope>>, <<N_a, N_stream>> }
PackOutputs == { <<N_a>>, <<N_a, N_out>>, <<N_a, N_stream, N_sub>>, <<N_out>>,
                 <<N_a, N_data, N_dotdot, N_out>> }
PackNames == { None, Some(N_p) }

Timestamp == <<"2","0","2","6","1","1","0","2","_","0","0","0","0","0","0">>

NoError == [type |-> "none", path |-> <<>>]
Error(t, p) == [type |-> t, path |-> p]

NoArgs ==
    [source_folder |-> <<>>, vehicle_folders |-> <<>>, output_folder |-> <<>>,
     pack_name |-> None, template_dir |-> None, audioconfig_path |-> None,
     sfx_path |-> None, fxmanifest_path |-> None]

NoTemplate == [audioconfig_path |-> <<>>, sfx_path |-> <<>>, fxmanifest_path |-> <<>>]

\* no second invocation is running
NoOther == [pc |-> "none", output_path |-> <<>>, zip_path |-> <<>>]

Init ==
    /\ fs \in Worlds
    /\ fs0 = fs
    /\ pc = "idle"
    /\ fn = "none"
    /\ args = NoArgs
    /\ source_path = <<>>
    /\ resolved_vehicle_folders = <<>>
    /\ output_path = <<>>
    /\ zip_path = <<>>
    /\ tpl = NoTemplate
    /\ archive = <<>>
    /\ walk = <<>>
    /\ current_root = <<>>
    /\ files = <<>>
    /\ vidx = 0
    /\ raised = NoError
    /\ result = <<>>
    /\ other = NoOther

----------------------------------------------------------------------------
(* Archive entries *)

\* archive.writestr(name, ""): an entry with empty content
EmptyEntry(name) == [name |-> name, data |-> <<>>]

\* archive.write(file_path, arcname): an entry with the content of the file
\* (a file's content is identified by the file's path)
FileEntry(file_path, arcname) == [name |-> arcname, data |-> <<file_path>>]


\* the marker loop stopping one folder short
MarkerEntries_short ==
    [i \in 1..(Len(REQUIRED_PACK_FOLDERS) - 1) |->
        EmptyEntry(REQUIRED_PACK_FOLDERS[i] \o <<"/">>)]

\* for folder_name in REQUIRED_PACK_FOLDERS: archive.writestr(f"{folder_name}/", "")
MarkerEntries ==
    [i \in DOMAIN REQUIRED_PACK_FOLDERS |->
        EmptyEntry(REQUIRED_PACK_FOLDERS[i] \o <<"/">>)]

\* zip_name: f"{pack_name}.zip", or prefix + timestamp + ".zip"
ZipName(pack_name, prefix) ==
    IF TruthyName(pack_name)
    THEN pack_name[1] \o <<".","z","i","p">>
    ELSE prefix \o Timestamp \o <<".","z","i","p">>

----------------------------------------------------------------------------
(* create_pack *)

\* the call and the resolution of source_folder
CreatePack ==
    /\ pc = "idle"
    /\ \E s \in PackSources, o \in PackOutputs, n \in PackNames :
          /\ args' = [NoArgs EXCEPT !.source_folder = s, !.output_folder = o,
                                    !.pack_name = n]
          /\ source_path' = Resolve(s)
    /\ fn' = "create_pack"
    /\ pc' = "cp_validate"
    /\ UNCHANGED <<other, fs, fs0, resolved_vehicle_folders, output_path, zip_path, tpl,
                   archive, walk, current_root, files, vidx, raised, result>>


\* the source checked for existence only
PackSourceError_exists_only(f, p) ==
    IF ~Exists(f, p) THEN Error("FileNotFoundError", p) ELSE NoError

\* the two checks of the source folder
PackSourceError(f, p) ==
    IF ~Exists(f, p) THEN Error("FileNotFoundError", p)
    ELSE IF ~IsDir(f, p) THEN Error("NotADirectoryError", p)
    ELSE NoError

CP_Validate ==
    /\ pc = "cp_validate"
    /\ raised' = PackSourceError(fs, source_path)
    /\ pc' = IF raised' = NoError THEN "cp_mkdir" ELSE "raised"
    /\ UNCHANGED <<other, fs, fs0, fn, args, source_path, resolved_vehicle_folders, output_path,
                   zip_path, tpl, archive, walk, current_root, files, vidx, result>>

\* the output folder is resolved and created, the archive path is fixed
CP_Mkdir ==
    /\ pc = "cp_mkdir"
    /\ output_path' = Resolve(args.output_folder)
    /\ fs' = Mkdir(fs, output_path')
    /\ zip_path' = Append(output_path', ZipName(args.pack_name, <<"p","a","c","k","_">>))
    /\ pc' = "cp_open"
    /\ UNCHANGED <<other, fs0, fn, args, source_path, resolved_vehicle_folders, tpl, archive,
                   walk, current_root, files, vidx, raised, result>>

\* the archive file is opened for writing, the four markers are written and
\* the walk of the source folder starts
CP_Open ==
    /\ pc = "cp_open"
    /\ fs' = CreateFile(fs, zip_path)
    /\ archive' = MarkerEntries
    /\ walk' = <<source_path>>
    /\ pc' = "cp_walk"
    /\ UNCHANGED <<other, fs0, fn, args, source_path, resolved_vehicle_folders, output_path,
                   zip_path, tpl, current_root, files, vidx, raised, result>>


\* no directory is left out of the walk
PruneDirs_none(root, dirs, out) == dirs

\* dirs[:] = [d for d in dirs if (current_root / d).resolve() != output_path]
PruneDirs(root, dirs, out) ==
    SelectSeq(dirs, LAMBDA d : Resolve(Append(root, d)) # out)

\* the paths os.walk visits next, before those already on its stack
Push(root, dirs, stack) == [i \in DOMAIN dirs |-> Append(root, dirs[i])] \o stack

\* os.walk yields the next directory, or ends and the call returns
CP_Walk ==
    /\ pc = "cp_walk"
    /\ IF walk = <<>>
       THEN /\ pc' = "done"
            /\ result' = Some(zip_path)
            /\ UNCHANGED <<walk, current_root, files>>
       ELSE LET top == Head(walk)
                root == Resolve(top)
            IN  /\ current_root' = root
                /\ files' = ScanFiles(fs, top)
                /\ walk' = Push(top, PruneDirs(root, ScanDirs(fs, top), output_path),
                                Tail(walk))
                /\ pc' = "cp_file"
                /\ UNCHANGED result
    /\ UNCHANGED <<other, fs, fs0, fn, args, source_path, resolved_vehicle_folders, output_path,
                   zip_path, tpl, archive, vidx, raised>>


\* the file compared with the output folder instead of the archive path
IsArchiveItself_folder(file_path, zpath) ==
    Resolve(file_path) = SubSeq(zpath, 1, Len(zpath) - 1)

\* if file_path.resolve() == zip_path: continue
IsArchiveItself(file_path, zpath) == Resolve(file_path) = zpath

\* the entry create_pack writes for file_path, as a list of zero or one entry
PackEntry(file_path, src, zpath) ==
    IF IsArchiveItself(file_path, zpath) THEN <<>>
    ELSE << FileEntry(file_path, AsPosix(RelativeTo(file_path, src))) >>

\* one round of "for file_name in files"
CP_File ==
    /\ pc = "cp_file"
    /\ IF files = <<>>
       THEN /\ pc' = "cp_walk"
            /\ UNCHANGED <<files, archive>>
       ELSE /\ archive' = archive \o PackEntry(Append(current_root, Head(files)),
                                               source_path, zip_path)
            /\ files' = Tail(files)
            /\ UNCHANGED pc
    /\ UNCHANGED <<other, fs, fs0, fn, args, source_path, resolved_vehicle_folders, output_path,
                   zip_path, tpl, walk, current_root, vidx, raised, result>>

----------------------------------------------------------------------------
(* create_carpack: validation and set-up *)

VehicleCandidates == { <<N_a>>, <<N_o, N_a>>, <<N_nope>>, <<N_a, N_r_txt>> }
VehicleLists == UNION { [1..n -> VehicleCandidates] : n \in 0..MaxVehicles }
CarOutputs == { <<N_out>>, <<N_a, N_out>> }
TemplateDirs == { None, Some(EmptyString), Some(<<N_xyz>>) }
AudioconfigPaths == { None, Some(<<N_parts, N_ac>>) }
SfxPaths == { None, Some(<<N_parts, N_sx>>) }
FxmanifestPaths == { None, Some(<<N_parts, N_fx_lua>>) }

\* the call
CreateCarpack ==
    /\ pc = "idle"
    /\ \E v \in VehicleLists, o \in CarOutputs, n \in PackNames, t \in TemplateDirs,
          a \in AudioconfigPaths, s \in SfxPaths, m \in FxmanifestPaths :
          args' = [NoArgs EXCEPT !.vehicle_folders = v, !.output_folder = o,
                                 !.pack_name = n, !.template_dir = t,
                                 !.audioconfig_path = a, !.sfx_path = s,
                                 !.fxmanifest_path = m]
    /\ fn' = "create_carpack"
    /\ pc' = "cc_nonempty"
    /\ UNCHANGED <<other, fs, fs0, source_path, resolved_vehicle_folders, output_path, zip_path,
                   tpl, archive, walk, current_root, files, vidx, raised, result>>


\* the empty list let through
VehicleListError_none(vehicle_folders) == NoError

\* if not vehicle_folders: raise ValueError
VehicleListError(vehicle_folders) ==
    IF vehicle_folders = <<>> THEN Error("ValueError", <<>>) ELSE NoError

CC_NonEmpty ==
    /\ pc = "cc_nonempty"
    /\ raised' = VehicleListError(args.vehicle_folders)
    /\ pc' = IF raised' = NoError THEN "cc_validate" ELSE "raised"
    /\ vidx' = 1
    /\ UNCHANGED <<other, fs, fs0, fn, args, source_path, resolved_vehicle_folders, output_path,
                   zip_path, tpl, archive, walk, current_root, files, result>>


\* a vehicle folder checked for existence only
VehicleError_exists_only(f, vehicle_path) ==
    IF ~Exists(f, vehicle_path) THEN Error("FileNotFoundError", vehicle_path)
    ELSE NoError

\* the two checks of one vehicle folder
VehicleError(f, vehicle_path) ==
    IF ~Exists(f, vehicle_path) THEN Error("FileNotFoundError", vehicle_path)
    ELSE IF ~IsDir(f, vehicle_path) THEN Error("NotADirectoryError", vehicle_path)
    ELSE NoError

\* one round of "for folder in vehicle_folders", or the end of the loop
CC_Validate ==
    /\ pc = "cc_validate"
    /\ IF vidx > Len(args.vehicle_folders)
       THEN /\ pc' = "cc_mkdir"
            /\ vidx' = 1
            /\ UNCHANGED <<raised, resolved_vehicle_folders>>
       ELSE LET vehicle_path == Resolve(args.vehicle_folders[vidx])
            IN  /\ raised' = VehicleError(fs, vehicle_path)
                /\ IF raised' = NoError
                   THEN /\ resolved_vehicle_folders' =
                              Append(resolved_vehicle_folders, vehicle_path)
                        /\ vidx' = vidx + 1
                        /\ UNCHANGED pc
                   ELSE /\ pc' = "raised"
                        /\ UNCHANGED <<resolved_vehicle_folders, vidx>>
    /\ UNCHANGED <<other, fs, fs0, fn, args, source_path, output_path, zip_path, tpl, archive,
                   walk, current_root, files, result>>

\* the output folder is resolved and created, the archive path is fixed
CC_Mkdir ==
    /\ pc = "cc_mkdir"
    /\ output_path' = Resolve(args.output_folder)
    /\ fs' = Mkdir(fs, output_path')
    /\ zip_path' = Append(output_path',
                          ZipName(args.pack_name, <<"c","a","r","p","a","c","k","_">>))
    /\ pc' = "cc_template"
    /\ UNCHANGED <<other, fs0, fn, args, source_path, resolved_vehicle_folders, tpl, archive,
                   walk, current_root, files, vidx, raised, result>>

\* whether the three template paths are to be derived from template_dir
NeedsTemplateDir(a) ==
    ~Truthy(a.audioconfig_path) \/ ~Truthy(a.sfx_path) \/ ~Truthy(a.fxmanifest_path)


\* only the missing template paths derived, the supplied ones kept
TemplatePaths_keep_supplied(a) ==
    LET template_path == IF Truthy(a.template_dir) THEN Resolve(a.template_dir[1]) ELSE <<>>
    IN  [audioconfig_path |-> IF Truthy(a.audioconfig_path) THEN a.audioconfig_path[1]
                              ELSE Append(template_path, N_audioconfig),
         sfx_path |-> IF Truthy(a.sfx_path) THEN a.sfx_path[1]
                      ELSE Append(template_path, N_sfx),
         fxmanifest_path |-> IF Truthy(a.fxmanifest_path) THEN a.fxmanifest_path[1]
                             ELSE Append(template_path, N_fxmanifest)]

\* the three template paths the call goes on with
TemplatePaths(a) ==
    IF NeedsTemplateDir(a)
    THEN LET template_path == Resolve(a.template_dir[1])
         IN  [audioconfig_path |-> Append(template_path, N_audioconfig),
              sfx_path |-> Append(template_path, N_sfx),
              fxmanifest_path |-> Append(template_path, N_fxmanifest)]
    ELSE [audioconfig_path |-> a.audioconfig_path[1],
          sfx_path |-> a.sfx_path[1],
          fxmanifest_path |-> a.fxmanifest_path[1]]

\* if not template_dir: raise ValueError
TemplateSpecError(a) ==
    IF NeedsTemplateDir(a) /\ ~Truthy(a.template_dir)
    THEN Error("ValueError", <<>>)
    ELSE NoError

CC_Template ==
    /\ pc = "cc_template"
    /\ raised' = TemplateSpecError(args)
    /\ IF raised' = NoError
       THEN /\ tpl' = TemplatePaths(args)
            /\ pc' = "cc_open"
       ELSE /\ pc' = "raised"
            /\ UNCHANGED tpl
    /\ UNCHANGED <<other, fs, fs0, fn, args, source_path, resolved_vehicle_folders, output_path,
                   zip_path, archive, walk, current_root, files, vidx, result>>

\* the archive file created next to the first vehicle instead of at zip_path
CC_Open_in_vehicle ==
    /\ pc = "cc_open"
    /\ fs' = CreateFile(fs, Append(resolved_vehicle_folders[1], Name(zip_path)))
    /\ archive' = MarkerEntries
    /\ pc' = "wt_check"
    /\ UNCHANGED <<other, fs0, fn, args, source_path, resolved_vehicle_folders, output_path,
                   zip_path, tpl, walk, current_root, files, vidx, raised, result>>

\* the archive file is opened for writing and the four markers are written
CC_Open ==
    /\ pc = "cc_open"
    /\ fs' = CreateFile(fs, zip_path)
    /\ archive' = MarkerEntries
    /\ pc' = "wt_check"
    /\ UNCHANGED <<other, fs0, fn, args, source_path, resolved_vehicle_folders, output_path,
                   zip_path, tpl, walk, current_root, files, vidx, raised, result>>

----------------------------------------------------------------------------
(* _write_template_files *)


\* the manifest left unchecked
TemplateError_no_manifest_check(f, audio_path, sfx_resolved, manifest) ==
    IF ~IsDir(f, audio_path) THEN Error("NotADirectoryError", audio_path)
    ELSE IF ~IsDir(f, sfx_resolved) THEN Error("NotADirectoryError", sfx_resolved)
    ELSE NoError

\* the three checks, in the order of the code
TemplateError(f, audio_path, sfx_resolved, manifest) ==
    IF ~IsDir(f, audio_path) THEN Error("NotADirectoryError", audio_path)
    ELSE IF ~IsDir(f, sfx_resolved) THEN Error("NotADirectoryError", sfx_resolved)
    ELSE IF ~IsFile(f, manifest) THEN Error("FileNotFoundError", manifest)
    ELSE NoError

WT_Check ==
    /\ pc = "wt_check"
    /\ raised' = TemplateError(fs, Resolve(tpl.audioconfig_path), Resolve(tpl.sfx_path),
                               Resolve(tpl.fxmanifest_path))
    /\ pc' = IF raised' = NoError THEN "wt_manifest" ELSE "raised"
    /\ UNCHANGED <<other, fs, fs0, fn, args, source_path, resolved_vehicle_folders, output_path,
                   zip_path, tpl, archive, walk, current_root, files, vidx, result>>

\* the manifest written ahead of the markers
WT_Manifest_before_markers ==
    /\ pc = "wt_manifest"
    /\ archive' = << FileEntry(Resolve(tpl.fxmanifest_path), N_fxmanifest) >> \o archive
    /\ walk' = << Resolve(tpl.audioconfig_path) >>
    /\ pc' = "wt_audio_walk"
    /\ UNCHANGED <<other, fs, fs0, fn, args, source_path, resolved_vehicle_folders, output_path,
                   zip_path, tpl, current_root, files, vidx, raised, result>>

\* archive.write(manifest, "fxmanifest.lua"); the walk of audioconfig starts
WT_Manifest ==
    /\ pc = "wt_manifest"
    /\ archive' = Append(archive, FileEntry(Resolve(tpl.fxmanifest_path), N_fxmanifest))
    /\ walk' = << Resolve(tpl.audioconfig_path) >>
    /\ pc' = "wt_audio_walk"
    /\ UNCHANGED <<other, fs, fs0, fn, args, source_path, resolved_vehicle_folders, output_path,
                   zip_path, tpl, current_root, files, vidx, raised, result>>

\* the marker of a directory without files, as a list of zero or one entry
DirMarker(prefix, relative_root, file_names) ==
    IF file_names = <<>> /\ relative_root # <<>>
    THEN << EmptyEntry(AsPosix(<<prefix>> \o relative_root) \o <<"/">>) >>
    ELSE <<>>

\* os.walk over a template directory yields its next directory, or ends
WT_Walk(here, base, prefix, file_pc, next_pc, next_walk) ==
    /\ pc = here
    /\ IF walk = <<>>
       THEN /\ pc' = next_pc
            /\ walk' = next_walk
            /\ UNCHANGED <<current_root, files, archive>>
       ELSE LET top == Head(walk)
                root_path == Resolve(top)
                file_names == ScanFiles(fs, top)
            IN  /\ current_root' = root_path
                /\ files' = file_names
                /\ archive' = archive \o DirMarker(prefix, RelativeTo(root_path, base),
                                                   file_names)
                /\ walk' = Push(top, ScanDirs(fs, top), Tail(walk))
                /\ pc' = file_pc
    /\ UNCHANGED <<other, fs, fs0, fn, args, source_path, resolved_vehicle_folders, output_path,
                   zip_path, tpl, vidx, raised, result>>

\* the entry written for one file of a template directory
TemplateEntry(file_path, base, prefix) ==
    FileEntry(file_path, AsPosix(<<prefix>> \o RelativeTo(file_path, base)))

\* one round of "for file_name in files" of a template walk
WT_File(here, base, prefix, walk_pc) ==
    /\ pc = here
    /\ IF files = <<>>
       THEN /\ pc' = walk_pc
            /\ UNCHANGED <<files, archive>>
       ELSE /\ archive' = Append(archive,
                                 TemplateEntry(Append(current_root, Head(files)),
                                               base, prefix))
            /\ files' = Tail(files)
            /\ UNCHANGED pc
    /\ UNCHANGED <<other, fs, fs0, fn, args, source_path, resolved_vehicle_folders, output_path,
                   zip_path, tpl, walk, current_root, vidx, raised, result>>

WT_AudioWalk ==
    WT_Walk("wt_audio_walk", Resolve(tpl.audioconfig_path), N_audioconfig,
            "wt_audio_file", "wt_sfx_walk", << Resolve(tpl.sfx_path) >>)

WT_AudioFile ==
    WT_File("wt_audio_file", Resolve(tpl.audioconfig_path), N_audioconfig,
            "wt_audio_walk")

WT_SfxWalk ==
    WT_Walk("wt_sfx_walk", Resolve(tpl.sfx_path), N_sfx,
            "wt_sfx_file", "cc_vehicle", <<>>)

WT_SfxFile ==
    WT_File("wt_sfx_file", Resolve(tpl.sfx_path), N_sfx, "wt_sfx_walk")

----------------------------------------------------------------------------
(* create_carpack: the vehicles *)


\* the data/ subtree keeping metadata files only
TargetPath_data_meta_only(vehicle_name, relative_file, extension) ==
    IF relative_file # <<>> /\ relative_file[1] = N_data
    THEN LET inner_relative == Tail(relative_file)
             inner_ext == Lower(Suffix(Name(inner_relative)))
         IN  IF inner_ext \in META_EXTENSIONS
             THEN Some(<<N_data, vehicle_name>> \o inner_relative)
             ELSE None
    ELSE IF relative_file # <<>> /\ relative_file[1] = N_stream
    THEN LET inner_relative == Tail(relative_file)
             inner_ext == Lower(Suffix(Name(inner_relative)))
         IN  IF inner_ext \in STREAM_EXTENSIONS
             THEN Some(<<N_stream, vehicle_name>> \o inner_relative)
             ELSE None
    ELSE IF extension \in META_EXTENSIONS
         THEN Some(<<N_data, vehicle_name>> \o relative_file)
    ELSE IF extension \in STREAM_EXTENSIONS
         THEN Some(<<N_stream, vehicle_name>> \o relative_file)
    ELSE None

\* files of any other extension routed to stream/ instead of left out
TargetPath_any_extension(vehicle_name, relative_file, extension) ==
    IF relative_file # <<>> /\ relative_file[1] = N_data
    THEN LET inner_relative == Tail(relative_file)
             inner_ext == Lower(Suffix(Name(inner_relative)))
         IN  IF inner_ext \in META_EXTENSIONS \/ inner_ext \in STREAM_EXTENSIONS
             THEN Some(<<N_data, vehicle_name>> \o inner_relative)
             ELSE None
    ELSE IF relative_file # <<>> /\ relative_file[1] = N_stream
    THEN LET inner_relative == Tail(relative_file)
             inner_ext == Lower(Suffix(Name(inner_relative)))
         IN  IF inner_ext \in STREAM_EXTENSIONS
             THEN Some(<<N_stream, vehicle_name>> \o inner_relative)
             ELSE None
    ELSE IF extension \in META_EXTENSIONS
         THEN Some(<<N_data, vehicle_name>> \o relative_file)
    ELSE Some(<<N_stream, vehicle_name>> \o relative_file)

\* target_path of a vehicle file: None, or the parts of the archive path
TargetPath(vehicle_name, relative_file, extension) ==
    IF relative_file # <<>> /\ relative_file[1] = N_data
    THEN LET inner_relative == Tail(relative_file)
             inner_ext == Lower(Suffix(Name(inner_relative)))
         IN  IF inner_ext \in META_EXTENSIONS \/ inner_ext \in STREAM_EXTENSIONS
             THEN Some(<<N_data, vehicle_name>> \o inner_relative)
             ELSE None
    ELSE IF relative_file # <<>> /\ relative_file[1] = N_stream
    THEN LET inner_relative == Tail(relative_file)
             inner_ext == Lower(Suffix(Name(inner_relative)))
         IN  IF inner_ext \in STREAM_EXTENSIONS
             THEN Some(<<N_stream, vehicle_name>> \o inner_relative)
             ELSE None
    ELSE IF extension \in META_EXTENSIONS
         THEN Some(<<N_data, vehicle_name>> \o relative_file)
    ELSE IF extension \in STREAM_EXTENSIONS
         THEN Some(<<N_stream, vehicle_name>> \o relative_file)
    ELSE None

\* the entry create_carpack writes for one vehicle file, as a list of zero
\* or one entry
VehicleEntry(file_name, root, vehicle_root, zpath) ==
    LET file_path == Append(root, file_name)
        target_path == TargetPath(Name(vehicle_root),
                                  RelativeTo(file_path, vehicle_root),
                                  Lower(Suffix(Name(file_path))))
    IN  IF file_name = N_fxmanifest THEN <<>>
        ELSE IF IsArchiveItself(file_path, zpath) THEN <<>>
        ELSE IF target_path = None THEN <<>>
        ELSE << FileEntry(file_path, AsPosix(target_path[1])) >>

\* "for vehicle_root in resolved_vehicle_folders": the walk of the next
\* vehicle starts, or the call returns
CC_Vehicle ==
    /\ pc = "cc_vehicle"
    /\ IF vidx > Len(resolved_vehicle_folders)
       THEN /\ pc' = "done"
            /\ result' = Some(zip_path)
            /\ UNCHANGED walk
       ELSE /\ walk' = << resolved_vehicle_folders[vidx] >>
            /\ pc' = "cc_walk"
            /\ UNCHANGED result
    /\ UNCHANGED <<other, fs, fs0, fn, args, source_path, resolved_vehicle_folders, output_path,
                   zip_path, tpl, archive, current_root, files, vidx, raised>>

\* os.walk over the vehicle yields its next directory, or ends
CC_Walk ==
    /\ pc = "cc_walk"
    /\ IF walk = <<>>
       THEN /\ vidx' = vidx + 1
            /\ pc' = "cc_vehicle"
            /\ UNCHANGED <<walk, current_root, files>>
       ELSE LET top == Head(walk)
            IN  /\ current_root' = Resolve(top)
                /\ files' = ScanFiles(fs, top)
                /\ walk' = Push(top, ScanDirs(fs, top), Tail(walk))
                /\ pc' = "cc_file"
                /\ UNCHANGED vidx
    /\ UNCHANGED <<other, fs, fs0, fn, args, source_path, resolved_vehicle_folders, output_path,
                   zip_path, tpl, archive, raised, result>>

\* one round of "for file_name in files" of a vehicle walk
CC_File ==
    /\ pc = "cc_file"
    /\ IF files = <<>>
       THEN /\ pc' = "cc_walk"
            /\ UNCHANGED <<files, archive>>
       ELSE /\ archive' = archive \o VehicleEntry(Head(files), current_root,
                                                  resolved_vehicle_folders[vidx],
                                                  zip_path)
            /\ files' = Tail(files)
            /\ UNCHANGED pc
    /\ UNCHANGED <<other, fs, fs0, fn, args, source_path, resolved_vehicle_folders, output_path,
                   zip_path, tpl, walk, current_root, vidx, raised, result>>

----------------------------------------------------------------------------

Next ==
    \/ CreatePack
    \/ CP_Validate
    \/ CP_Mkdir
    \/ CP_Open
    \/ CP_Walk
    \/ CP_File
    \/ CreateCarpack
    \/ CC_NonEmpty
    \/ CC_Validate
    \/ CC_Mkdir
    \/ CC_Template
    \/ CC_Open
    \/ WT_Check
    \/ WT_Manifest
    \/ WT_AudioWalk
    \/ WT_AudioFile
    \/ WT_SfxWalk
    \/ WT_SfxFile
    \/ CC_Vehicle
    \/ CC_Walk
    \/ CC_File

Spec == Init /\ [][Next]_vars

----------------------------------------------------------------------------
(* Two invocations at the same time *)

N_q == <<"q">>

\* the file system both invocations work on: the two vehicles, the parts and
\* a complete template root
ParWorld ==
    MkFs(VehicleA \cup VehicleB \cup Parts \cup TemplateRoot("dir", "dir", "file"))

\* the arguments of the invocation that is followed step by step
ParPackSources == { <<N_a>>, <<N_a, N_stream>>, <<N_nope>> }
ParVehicleCandidates == { <<N_a>>, <<N_o, N_a>>, <<N_nope>> }
ParVehicleLists == UNION { [1..n -> ParVehicleCandidates] : n \in 1..MaxVehicles }
ParTemplates ==
    { [template_dir |-> Some(<<N_xyz>>), audioconfig_path |-> None,
       sfx_path |-> None, fxmanifest_path |-> None],
      [template_dir |-> None, audioconfig_path |-> Some(<<N_parts, N_ac>>),
       sfx_path |-> Some(<<N_parts, N_sx>>),
       fxmanifest_path |-> Some(<<N_parts, N_fx_lua>>)] }

\* the output folder of the second invocation: apart from everything, new or
\* existing inside a vehicle, inside a template directory, below a missing
\* folder
OtherOutputs ==
    { <<N_q>>, <<N_a, N_q>>, <<N_a, N_stream>>, <<N_xyz, N_audioconfig, N_q>>,
      <<N_parts, N_sx>>, <<N_nope, N_q>> }

\* the second invocation before its first write; its archive is q.zip
OtherCalls ==
    { [pc |-> "ready", output_path |-> o,
       zip_path |-> Append(o, ZipName(Some(N_q), <<>>))] : o \in OtherOutputs }

ParInit ==
    /\ fs = ParWorld
    /\ fs0 = fs
    /\ pc = "idle"
    /\ fn = "none"
    /\ args = NoArgs
    /\ source_path = <<>>
    /\ resolved_vehicle_folders = <<>>
    /\ output_path = <<>>
    /\ zip_path = <<>>
    /\ tpl = NoTemplate
    /\ archive = <<>>
    /\ walk = <<>>
    /\ current_root = <<>>
    /\ files = <<>>
    /\ vidx = 0
    /\ raised = NoError
    /\ result = <<>>
    /\ other \in OtherCalls

\* create_pack is called while the second invocation runs
ParCreatePack ==
    /\ pc = "idle"
    /\ \E s \in ParPackSources, o \in CarOutputs :
          /\ args' = [NoArgs EXCEPT !.source_folder = s, !.output_folder = o,
                                    !.pack_name = Some(N_p)]
          /\ source_path' = Resolve(s)
    /\ fn' = "create_pack"
    /\ pc' = "cp_validate"
    /\ UNCHANGED <<other, fs, fs0, resolved_vehicle_folders, output_path, zip_path, tpl,
                   archive, walk, current_root, files, vidx, raised, result>>

\* create_carpack is called while the second invocation runs
ParCreateCarpack ==
    /\ pc = "idle"
    /\ \E v \in ParVehicleLists, o \in CarOutputs, t \in ParTemplates :
          args' = [NoArgs EXCEPT !.vehicle_folders = v, !.output_folder = o,
                                 !.pack_name = Some(N_p),
                                 !.template_dir = t.template_dir,
                                 !.audioconfig_path = t.audioconfig_path,
                                 !.sfx_path = t.sfx_path,
                                 !.fxmanifest_path = t.fxmanifest_path]
    /\ fn' = "create_carpack"
    /\ pc' = "cc_nonempty"
    /\ UNCHANGED <<other, fs, fs0, source_path, resolved_vehicle_folders, output_path, zip_path,
                   tpl, archive, walk, current_root, files, vidx, raised, result>>

\* the second invocation creates its output folder, at any moment of the
\* first one's run (what it does before the first call's first step or after
\* its last one is not seen by the first call)
OtherMkdir ==
    /\ other.pc = "ready"
    /\ pc \notin {"idle", "done", "raised"}
    /\ fs' = Mkdir(fs, other.output_path)
    /\ other' = [other EXCEPT !.pc = "mkdir"]
    /\ UNCHANGED <<fs0, pc, fn, args, source_path, resolved_vehicle_folders, output_path,
                   zip_path, tpl, archive, walk, current_root, files, vidx, raised, result>>

\* the second invocation opens its archive file for writing
OtherOpen ==
    /\ other.pc = "mkdir"
    /\ pc \notin {"idle", "done", "raised"}
    /\ fs' = CreateFile(fs, other.zip_path)
    /\ other' = [other EXCEPT !.pc = "open"]
    /\ UNCHANGED <<fs0, pc, fn, args, source_path, resolved_vehicle_folders, output_path,
                   zip_path, tpl, archive, walk, current_root, files, vidx, raised, result>>

ParNext ==
    \/ ParCreatePack
    \/ CP_Validate
    \/ CP_Mkdir
    \/ CP_Open
    \/ CP_Walk
    \/ CP_File
    \/ ParCreateCarpack
    \/ CC_NonEmpty
    \/ CC_Validate
    \/ CC_Mkdir
    \/ CC_Template
    \/ CC_Open
    \/ WT_Check
    \/ WT_Manifest
    \/ WT_AudioWalk
    \/ WT_AudioFile
    \/ WT_SfxWalk
    \/ WT_SfxFile
    \/ CC_Vehicle
    \/ CC_Walk
    \/ CC_File
    \/ OtherMkdir
    \/ OtherOpen

SpecPar == ParInit /\ [][ParNext]_vars

----------------------------------------------------------------------------
(* Properties *)

Entries == { archive[i] : i \in DOMAIN archive }

\* all regular files of f under directory d
FilesUnder(f, d) == { p \in DOMAIN f : f[p] = "file" /\ IsPrefix(d, p) /\ p # d }

Range(q) == { q[i] : i \in DOMAIN q }
MarkerNames == { REQUIRED_PACK_FOLDERS[i] \o <<"/">> : i \in DOMAIN REQUIRED_PACK_FOLDERS }
OnlyMarkers == \A e \in Entries : e.name \in MarkerNames /\ e.data = <<>>
PackDone == pc = "done" /\ fn = "create_pack"
CarpackDone == pc = "done" /\ fn = "create_carpack"

\* a relative path begins with the segment seg followed by more
BeginsWith(rel, seg) == Len(rel) >= 2 /\ rel[1] = seg

\* the routing rule set of the assembler, as a list of zero or one archive
\* name: rule 1 (data/ subtree), rule 2 (stream/ subtree), rule 3 (elsewhere)
RuleName(vehicleName, rel) ==
    LET ext == Lower(Suffix(Name(rel)))
        meta == ext \in META_EXTENSIONS
        asset == ext \in STREAM_EXTENSIONS
        under(top, rest) == top \o <<"/">> \o vehicleName \o <<"/">> \o AsPosix(rest)
    IN  IF BeginsWith(rel, N_data)
        THEN (IF meta \/ asset THEN << under(N_data, Tail(rel)) >> ELSE <<>>)
        ELSE IF BeginsWith(rel, N_stream)
        THEN (IF asset THEN << under(N_stream, Tail(rel)) >> ELSE <<>>)
        ELSE IF meta THEN << under(N_data, rel) >>
        ELSE IF asset THEN << under(N_stream, rel) >>
        ELSE <<>>

\* the image of the rule set over the files of the vehicles of the call
RoutedEntries ==
    { [name |-> RuleName(Name(v), RelativeTo(p, v))[1], data |-> <<p>>] :
        <<v, p>> \in { vp \in Range(resolved_vehicle_folders) \X DOMAIN fs :
                         /\ vp[2] \in FilesUnder(fs, vp[1])
                         /\ Name(vp[2]) # N_fxmanifest
                         /\ vp[2] # zip_path
                         /\ RuleName(Name(vp[1]), RelativeTo(vp[2], vp[1])) # <<>> } }

\* the entries of the archive below data/ or stream/
EntriesBelowDataOrStream ==
    { e \in Entries : \/ (IsPrefix(N_data \o <<"/">>, e.name) /\ e.name # N_data \o <<"/">>)
                      \/ (IsPrefix(N_stream \o <<"/">>, e.name)
                             /\ e.name # N_stream \o <<"/">>) }

\* C1: when create_carpack returns, the entries of the archive below data/
\* and stream/ are exactly the image of the three routing rules over the
\* regular files of the vehicles (fxmanifest.lua files and the archive file
\* left out), each with the content of the file it comes from
C1_Routing == CarpackDone => EntriesBelowDataOrStream = RoutedEntries

C1_Witness ==
    /\ CarpackDone
    /\ Len(resolved_vehicle_folders) = 2
    /\ \E e \in Entries : e.name = AsPosix(<<N_stream, N_a, N_M_YFT>>)
    /\ \E e \in Entries : e.name = AsPosix(<<N_data, N_a, N_e_yft>>)
    /\ \E e \in Entries : e.name = AsPosix(<<N_stream, N_a, N_sub, N_c_ycd>>)
    /\ ~ \E e \in Entries : e.data = << <<N_a, N_stream, N_h_meta>> >>

\* the regular files that existed under the source folder before the call,
\* each keyed by its relative path
SourceEntries(keep(_)) ==
    { [name |-> AsPosix(RelativeTo(p, source_path)), data |-> <<p>>] :
        p \in { q \in FilesUnder(fs0, source_path) : keep(q) } }

NonMarkerEntries == { e \in Entries : e.name \notin MarkerNames }

\* C2 as stated: when create_pack returns, the entries other than the four
\* markers are all the regular files under the source folder
C2_AllSourceFiles ==
    PackDone => NonMarkerEntries = SourceEntries(LAMBDA q : TRUE)

\* a file the walk of create_pack leaves out: the archive file, and every
\* file inside the output folder when that is a directory below the source
LeftOut(q) ==
    \/ q = zip_path
    \/ (output_path # source_path /\ IsPrefix(source_path, output_path)
           /\ IsPrefix(output_path, q))

\* C2 (amended): when create_pack returns, the entries other than the four
\* markers are the regular files under the source folder that are neither
\* the archive file nor inside an output folder lying below the source folder
C2_SourceFilesOutsideOutput ==
    PackDone => NonMarkerEntries = SourceEntries(LAMBDA q : ~LeftOut(q))

C2_Witness ==
    /\ PackDone
    /\ output_path = <<N_a, N_out>>
    /\ source_path = <<N_a>>
    /\ IsFile(fs0, <<N_a, N_out, N_old_ydr>>)
    /\ \E e \in Entries : e.name = AsPosix(<<N_stream, N_sub, N_c_ycd>>)

\* C3: an archive of a call that returned holds the four marker entries
\* audioconfig/, data/, stream/ and sfx/, each with empty content
C3_Markers ==
    pc = "done" =>
        \A i \in DOMAIN REQUIRED_PACK_FOLDERS :
            \E e \in Entries : e.name = REQUIRED_PACK_FOLDERS[i] \o <<"/">> /\ e.data = <<>>

C3_Witness ==
    /\ CarpackDone
    /\ Len(archive) > Len(REQUIRED_PACK_FOLDERS)
    /\ IsFile(fs, zip_path)

\* the fixture of the tests: existing vehicle folders, and a template_dir
\* holding the file fxmanifest.lua and the directory audioconfig
C4_Fixture ==
    /\ fn = "create_carpack"
    /\ args.vehicle_folders # <<>>
    /\ \A i \in DOMAIN args.vehicle_folders : IsDir(fs0, args.vehicle_folders[i])
    /\ args.template_dir = Some(<<N_xyz>>)
    /\ args.audioconfig_path = None /\ args.sfx_path = None /\ args.fxmanifest_path = None
    /\ IsFile(fs0, <<N_xyz, N_fxmanifest>>)
    /\ IsDir(fs0, <<N_xyz, N_audioconfig>>)

\* C4: on the fixture create_carpack does not raise, and when it returns the
\* result is an existing file and the archive holds fxmanifest.lua and every
\* file of the template's audioconfig directory at audioconfig/<relative path>
C4_TemplateCopied ==
    C4_Fixture =>
        /\ pc # "raised"
        /\ pc = "done" =>
              /\ IsFile(fs, result[1])
              /\ \E e \in Entries : e.name = N_fxmanifest
              /\ \A p \in FilesUnder(fs0, <<N_xyz, N_audioconfig>>) :
                    \E e \in Entries :
                        e.name = AsPosix(<<N_audioconfig>>
                                         \o RelativeTo(p, <<N_xyz, N_audioconfig>>))

\* C5: create_pack never writes the archive file as an entry of the archive
C5_NoSelfInclusion ==
    fn = "create_pack" => \A e \in Entries : e.data # <<zip_path>>

C5_Witness ==
    /\ PackDone
    /\ output_path = source_path
    /\ zip_path \in Children(fs, source_path)
    /\ Len(archive) > Len(REQUIRED_PACK_FOLDERS)

\* C6: create_pack on a source that does not exist raises FileNotFoundError,
\* on a source that is a file NotADirectoryError, and up to then nothing is
\* created: the file system is as before the call and no archive is written
C6_SourceErrors ==
    (fn = "create_pack" /\ ~IsDir(fs0, source_path)) =>
        /\ pc \in {"cp_validate", "raised"}
        /\ fs = fs0
        /\ archive = <<>>
        /\ pc = "raised" =>
              raised = Error(IF Exists(fs0, source_path) THEN "NotADirectoryError"
                             ELSE "FileNotFoundError", source_path)

C6_Witness ==
    /\ fn = "create_pack"
    /\ pc = "raised"
    /\ raised.type = "NotADirectoryError"
    /\ ~Exists(fs, Resolve(args.output_folder))

\* C7: create_carpack with an empty vehicle list raises ValueError whatever
\* the other arguments are, and nothing is created
C7_EmptyList ==
    (fn = "create_carpack" /\ args.vehicle_folders = <<>>) =>
        /\ pc \in {"cc_nonempty", "raised"}
        /\ fs = fs0
        /\ archive = <<>>
        /\ pc = "raised" => raised.type = "ValueError"

C7_Witness ==
    /\ fn = "create_carpack"
    /\ args.vehicle_folders = <<>>
    /\ pc = "raised"
    /\ args.template_dir = None
    /\ args.sfx_path = None
    /\ ~Exists(fs, Resolve(args.output_folder))

\* the positions of the vehicle list that are not existing directories
BadVehicles == { i \in DOMAIN args.vehicle_folders : ~IsDir(fs0, Resolve(args.vehicle_folders[i])) }
FirstBadVehicle == CHOOSE i \in BadVehicles : \A j \in BadVehicles : i <= j

\* C8: create_carpack with a vehicle entry that is missing or not a
\* directory raises for the first such entry of the list, FileNotFoundError
\* if it is missing and NotADirectoryError otherwise, naming its resolved
\* path, and nothing is created
C8_FirstBadVehicle ==
    (fn = "create_carpack" /\ BadVehicles # {}) =>
        /\ pc \in {"cc_nonempty", "cc_validate", "raised"}
        /\ fs = fs0
        /\ archive = <<>>
        /\ pc = "raised" =>
              LET bad == Resolve(args.vehicle_folders[FirstBadVehicle])
              IN  raised = Error(IF Exists(fs0, bad) THEN "NotADirectoryError"
                                 ELSE "FileNotFoundError", bad)

C8_Witness ==
    /\ fn = "create_carpack"
    /\ pc = "raised"
    /\ Cardinality(BadVehicles) = 2
    /\ raised.type = "NotADirectoryError"
    /\ \E i \in BadVehicles : ~Exists(fs0, Resolve(args.vehicle_folders[i]))
    /\ ~Exists(fs, Resolve(args.output_folder))

\* the call is past the resolution of the template paths
PastTemplateResolution ==
    /\ fn = "create_carpack"
    /\ args.vehicle_folders # <<>>
    /\ BadVehicles = {}
    /\ pc \notin {"cc_nonempty", "cc_validate", "cc_mkdir", "cc_template"}

AnyPartMissing ==
    args.audioconfig_path = None \/ args.sfx_path = None \/ args.fxmanifest_path = None

\* C9: once create_carpack has resolved the template: if one of the three
\* individual paths is missing, then without a template_dir the call has
\* raised ValueError, and with one all three paths are those below
\* template_dir; if none is missing the three paths are the supplied ones
C9_TemplateResolution ==
    PastTemplateResolution =>
        IF AnyPartMissing
        THEN IF args.template_dir \in {None, Some(EmptyString)}
             THEN pc = "raised" /\ raised.type = "ValueError"
             ELSE tpl = [audioconfig_path |-> Append(args.template_dir[1], N_audioconfig),
                         sfx_path |-> Append(args.template_dir[1], N_sfx),
                         fxmanifest_path |-> Append(args.template_dir[1], N_fxmanifest)]
        ELSE tpl = [audioconfig_path |-> args.audioconfig_path[1],
                    sfx_path |-> args.sfx_path[1],
                    fxmanifest_path |-> args.fxmanifest_path[1]]

C9_Witness ==
    /\ PastTemplateResolution
    /\ args.audioconfig_path # None
    /\ args.fxmanifest_path # None
    /\ args.sfx_path = None
    /\ args.template_dir = Some(<<N_xyz>>)
    /\ pc = "done"

\* the template checks have been made
TemplateChecked ==
    /\ fn = "create_carpack"
    /\ tpl # NoTemplate
    /\ pc \notin {"cc_template", "cc_open", "wt_check"}

C11_NoDuplicateNames ==
    pc = "done" =>
        \A i, j \in DOMAIN archive : i # j => archive[i].name # archive[j].name

\* C11 for create_pack alone: its archive has no two entries of one path
C11_PackNoDuplicateNames ==
    PackDone =>
        \A i, j \in DOMAIN archive : i # j => archive[i].name # archive[j].name

\* the paths inside the vehicle folders of the call (the folders that exist)
InVehicle(p) ==
    \E i \in DOMAIN args.vehicle_folders :
        LET v == Resolve(args.vehicle_folders[i])
        IN  IsDir(fs0, v) /\ IsPrefix(v, p) /\ p # v

\* the file system is the same at p as before the call
Untouched(p) ==
    /\ p \in DOMAIN fs <=> p \in DOMAIN fs0
    /\ p \in DOMAIN fs => fs[p] = fs0[p]

\* the paths created, deleted or changed in kind since the call began
Touched == { p \in DOMAIN fs \cup DOMAIN fs0 : ~Untouched(p) }

\* C13 as stated: in every state of a create_carpack call, whatever the
\* output folder and pack name, everything inside the vehicle folders is as
\* it was before the call
C13_VehiclesUntouched ==
    fn = "create_carpack" =>
        \A p \in Touched : ~InVehicle(p)

\* the output folder of the call, its parents, and the archive file
OwnOutput(p) ==
    \/ IsPrefix(p, Resolve(args.output_folder))
    \/ p = Append(Resolve(args.output_folder),
                  ZipName(args.pack_name, <<"c","a","r","p","a","c","k","_">>))

\* C13 (amended): in every state of a create_carpack call everything inside
\* the vehicle folders is as it was before the call, except the output
\* folder (with its parents) and the archive file when they lie inside a
\* vehicle folder
C13_VehiclesUntouchedButOutput ==
    fn = "create_carpack" =>
        \A p \in Touched : InVehicle(p) => OwnOutput(p)

C13_Witness ==
    /\ CarpackDone
    /\ InVehicle(zip_path)
    /\ ~Exists(fs0, output_path)
    /\ IsDir(fs, output_path)
    /\ \E e \in Entries : e.data = << <<N_a, N_v_meta>> >>

\* the part of the archive an entry belongs to, by its name
IsMarker(e) == e.name \in MarkerNames /\ e.data = <<>>
IsManifest(e) == e.name = N_fxmanifest
IsAudioconfig(e) == ~IsMarker(e) /\ IsPrefix(N_audioconfig \o <<"/">>, e.name)
IsSfx(e) == ~IsMarker(e) /\ IsPrefix(N_sfx \o <<"/">>, e.name)
IsVehicleEntry(e) ==
    ~IsMarker(e) /\ (IsPrefix(N_data \o <<"/">>, e.name) \/ IsPrefix(N_stream \o <<"/">>, e.name))

\* the place of an entry in the order markers, manifest, audioconfig, sfx,
\* vehicles
Rank(e) ==
    IF IsMarker(e) THEN 0
    ELSE IF IsManifest(e) THEN 1
    ELSE IF IsAudioconfig(e) THEN 2
    ELSE IF IsSfx(e) THEN 3
    ELSE 4

\* the entries from position pos on come from the vehicles k, k+1, ... of
\* the list, in that order
RECURSIVE Grouped(_, _)
Grouped(pos, k) ==
    IF pos > Len(archive) THEN TRUE
    ELSE IF k > Len(resolved_vehicle_folders) THEN FALSE
    ELSE \/ /\ archive[pos].data # <<>>
            /\ IsPrefix(resolved_vehicle_folders[k], archive[pos].data[1])
            /\ Grouped(pos + 1, k)
         \/ Grouped(pos, k + 1)

VehiclePositions == { i \in DOMAIN archive : IsVehicleEntry(archive[i]) }
ManifestPositions == { i \in DOMAIN archive : IsManifest(archive[i]) }

\* C14: in every state of a create_carpack call the archive written so far
\* begins with the four markers in their order, every entry is a marker, the
\* manifest, below audioconfig/, below sfx/ or a vehicle entry, these parts
\* follow one another in that order, there is at most one manifest entry
\* (exactly one once the call has returned) and the vehicle entries are
\* grouped by vehicle in the order of the vehicle list
C14_EntryOrder ==
    (fn = "create_carpack" /\ archive # <<>>) =>
        /\ Len(archive) >= Len(REQUIRED_PACK_FOLDERS)
        /\ \A i \in DOMAIN REQUIRED_PACK_FOLDERS :
              archive[i] = [name |-> REQUIRED_PACK_FOLDERS[i] \o <<"/">>, data |-> <<>>]
        /\ \A i \in DOMAIN archive : IsMarker(archive[i]) => i <= Len(REQUIRED_PACK_FOLDERS)
        /\ \A i \in DOMAIN archive :
              \/ IsMarker(archive[i]) \/ IsManifest(archive[i]) \/ IsAudioconfig(archive[i])
              \/ IsSfx(archive[i]) \/ IsVehicleEntry(archive[i])
        /\ \A i \in DOMAIN archive :
              i < Len(archive) => Rank(archive[i]) <= Rank(archive[i + 1])
        /\ Cardinality(ManifestPositions) <= 1
        /\ pc = "done" => Cardinality(ManifestPositions) = 1
        /\ VehiclePositions # {} =>
              Grouped(CHOOSE i \in VehiclePositions : \A j \in VehiclePositions : i <= j, 1)

C14_Witness ==
    /\ CarpackDone
    /\ Len(resolved_vehicle_folders) = 2
    /\ resolved_vehicle_folders[1] = <<N_o, N_a>>
    /\ resolved_vehicle_folders[2] = <<N_a>>
    /\ \E e \in Entries : IsAudioconfig(e) /\ e.data = <<>>
    /\ \E e \in Entries : IsSfx(e)
    /\ \E e \in Entries : e.data = << <<N_o, N_a, N_v_meta>> >>
    /\ \E e \in Entries : e.data = << <<N_a, N_stream, N_sub, N_c_ycd>> >>

----------------------------------------------------------------------------
(* The outcome of a call that runs alone, computed from its arguments and the
   file system it started on *)

AloneOutput == Resolve(args.output_folder)
AloneZip ==
    Append(AloneOutput,
           ZipName(args.pack_name,
                   IF fn = "create_pack" THEN <<"p","a","c","k","_">>
                   ELSE <<"c","a","r","p","a","c","k","_">>))

\* the file system once the call has created its output folder and archive
AloneFs == CreateFile(Mkdir(fs0, AloneOutput), AloneZip)

RECURSIVE Flatten(_)
Flatten(ss) == IF ss = <<>> THEN <<>> ELSE Head(ss) \o Flatten(Tail(ss))

\* the entries of a whole create_pack walk over f
RECURSIVE AlonePackWalk(_, _)
AlonePackWalk(f, stack) ==
    IF stack = <<>> THEN <<>>
    ELSE LET top == Head(stack)
             root == Resolve(top)
             names == ScanFiles(f, top)
         IN  Flatten([i \in DOMAIN names |->
                         PackEntry(Append(root, names[i]),
                                   Resolve(args.source_folder), AloneZip)])
             \o AlonePackWalk(f, Push(top, PruneDirs(root, ScanDirs(f, top), AloneOutput),
                                       Tail(stack)))

\* the entries of a whole walk over one template directory
RECURSIVE AloneTemplateWalk(_, _, _, _)
AloneTemplateWalk(f, stack, base, prefix) ==
    IF stack = <<>> THEN <<>>
    ELSE LET top == Head(stack)
             root == Resolve(top)
             names == ScanFiles(f, top)
         IN  DirMarker(prefix, RelativeTo(root, base), names)
             \o [i \in DOMAIN names |-> TemplateEntry(Append(root, names[i]), base, prefix)]
             \o AloneTemplateWalk(f, Push(top, ScanDirs(f, top), Tail(stack)), base, prefix)

\* the entries of a whole walk over one vehicle
RECURSIVE AloneVehicleWalk(_, _, _)
AloneVehicleWalk(f, stack, vehicle_root) ==
    IF stack = <<>> THEN <<>>
    ELSE LET top == Head(stack)
             root == Resolve(top)
             names == ScanFiles(f, top)
         IN  Flatten([i \in DOMAIN names |->
                         VehicleEntry(names[i], root, vehicle_root, AloneZip)])
             \o AloneVehicleWalk(f, Push(top, ScanDirs(f, top), Tail(stack)), vehicle_root)

\* the exception the call raises alone, or NoError
AloneError ==
    IF fn = "create_pack" THEN PackSourceError(fs0, Resolve(args.source_folder))
    ELSE IF VehicleListError(args.vehicle_folders) # NoError
    THEN VehicleListError(args.vehicle_folders)
    ELSE IF BadVehicles # {}
    THEN VehicleError(fs0, Resolve(args.vehicle_folders[FirstBadVehicle]))
    ELSE IF TemplateSpecError(args) # NoError THEN TemplateSpecError(args)
    ELSE LET t == TemplatePaths(args)
         IN  TemplateError(AloneFs, Resolve(t.audioconfig_path), Resolve(t.sfx_path),
                           Resolve(t.fxmanifest_path))

\* the archive the call writes alone, if it raises nothing
AloneArchive ==
    IF fn = "create_pack"
    THEN MarkerEntries \o AlonePackWalk(AloneFs, << Resolve(args.source_folder) >>)
    ELSE LET t == TemplatePaths(args)
             audio == Resolve(t.audioconfig_path)
             sfx == Resolve(t.sfx_path)
         IN  MarkerEntries
             \o << FileEntry(Resolve(t.fxmanifest_path), N_fxmanifest) >>
             \o AloneTemplateWalk(AloneFs, <<audio>>, audio, N_audioconfig)
             \o AloneTemplateWalk(AloneFs, <<sfx>>, sfx, N_sfx)
             \o Flatten([i \in DOMAIN args.vehicle_folders |->
                            LET v == Resolve(args.vehicle_folders[i])
                            IN  AloneVehicleWalk(AloneFs, <<v>>, v)])

\* the call ends as it ends alone, and what it has written so far is the
\* beginning of what it writes alone
SameAsAlone ==
    /\ pc = "raised" => (AloneError # NoError /\ raised = AloneError)
    /\ pc = "done" => (AloneError = NoError /\ archive = AloneArchive)
    /\ (fn # "none" /\ archive # <<>> /\ AloneError = NoError) =>
           IsPrefix(archive, AloneArchive)

\* C12 as stated: whatever the second invocation's output folder is and
\* whenever its writes happen, the call ends with the exception or the archive
\* it ends with alone
C12_Independent == SameAsAlone

\* the second invocation overwrites no file, and its output folder lies neither
\* in the source folder of create_pack, nor in the audioconfig or sfx directory
\* create_carpack copies, nor in a vehicle folder that does not exist
OtherApart ==
    /\ other.zip_path \notin DOMAIN fs0
    /\ fn = "create_pack" =>
           ~IsPrefix(Resolve(args.source_folder), other.output_path)
    /\ fn = "create_carpack" =>
           /\ \A i \in DOMAIN args.vehicle_folders :
                  LET v == Resolve(args.vehicle_folders[i])
                  IN  ~Exists(fs0, v) => ~IsPrefix(v, other.output_path)
           /\ TemplateSpecError(args) = NoError =>
                  LET t == TemplatePaths(args)
                  IN  /\ ~IsPrefix(Resolve(t.audioconfig_path), other.output_path)
                      /\ ~IsPrefix(Resolve(t.sfx_path), other.output_path)

\* C12 (amended): a call ends with the exception or the archive it ends with
\* alone, under every interleaving with the writes of a second invocation
\* whose output folder lies outside the folders the call copies from and
\* outside its missing folders; an output folder inside an existing vehicle
\* tree changes nothing
C12_IndependentApart == OtherApart => SameAsAlone

\* create_carpack is about to look at the archive file the second invocation
\* has opened inside the vehicle being walked
C12_Witness ==
    /\ pc = "cc_file"
    /\ OtherApart
    /\ other.pc = "open"
    /\ files # <<>>
    /\ Append(current_root, Head(files)) = other.zip_path
    /\ InVehicle(other.zip_path)

====
